---- MODULE Spec2Model ----
(***************************************************************************)
(* VibeCheck: the VaderScores aggregator (src/vaderscores.py) and the      *)
(* multi-channel driver (src/main.py).                                     *)
(*                                                                         *)
(* Numbers.  VADER rounds its pos/neu/neg to 3 decimals, so 0.8 is 800     *)
(* thousandths; add_score takes any number, so the lists hold their        *)
(* values in a finer unit, 1/Resolution of a thousandth.  Rounded results  *)
(* are whole thousandths.  Python's round(x, 3) of a quotient is the       *)
(* nearest thousandth; when the exact quotient lies half-way between two   *)
(* thousandths the double that Python holds is a few ulps above or below   *)
(* the tie, depending on the order of the floating-point operations, so    *)
(* the model lets round() return either neighbour there (Round3).          *)
(* Unrounded quotients (kindness, volatility) are kept exact as a          *)
(* numerator and a denominator.                                            *)
(***************************************************************************)
EXTENDS Integers, Sequences, FiniteSets, TLC

VARIABLES
  channel_id,       \* VaderScores.channel_id
  tags,             \* VaderScores.tags
  pos_scores,       \* VaderScores.pos_scores
  neu_scores,       \* VaderScores.neu_scores
  neg_scores,       \* VaderScores.neg_scores
  weights,          \* VaderScores.weights
  added,            \* history: the arguments of the add_score calls on this object
  last,             \* the last call made: its name, arguments and outcome
  channel_ratings,  \* the channel ids that have a file channel-ratings/<id>.json
  pc,               \* main.py: position of the driver
  ch,               \* main.py: index of the channel the loop is at
  fetch             \* get_video_ids: its locals and its position

vars == <<channel_id, tags, pos_scores, neu_scores, neg_scores, weights,
          added, last, channel_ratings, pc, ch, fetch>>

aggregator == <<channel_id, tags, pos_scores, neu_scores, neg_scores, weights>>

driver == <<pc, ch>>

------------------------------------------------------------------------------
(* Bounds and inputs *)

MaxObs == 3

MaxComments == 2

MaxVideos == 3

MaxPageItems == 2

\* The lists hold scores in units of 1/Resolution of a thousandth.
Resolution == 10

\* Sentiment triples, given in thousandths.
Triple(p, u, g) ==
  [pos |-> p * Resolution, neu |-> u * Resolution, neg |-> g * Resolution]

Obs(t, l) == [score |-> t, likes |-> l]

\* The add_score inputs explored: the three sample observations of the
\* self test, an all-neutral comment, a comment with no neutral share and
\* equal positive and negative shares, a comment whose positive share is an
\* odd number of thousandths, an engagement count of -1 (weight 0), and a
\* triple that is not a whole number of thousandths (0.3337, 0.6663, 0.0
\* at Resolution 10).
Observations ==
  { Obs(Triple(800, 200, 0), 5),
    Obs(Triple(0, 300, 700), 1),
    Obs(Triple(100, 700, 200), 0),
    Obs(Triple(0, 1000, 0), 0),
    Obs(Triple(500, 0, 500), 0),
    Obs(Triple(59, 941, 0), 5),
    Obs(Triple(100, 700, 200), -1),
    Obs([pos |-> 333 * Resolution + 7, neu |-> 666 * Resolution + 3, neg |-> 0], 0) }

\* Comments the driver meets (like counts of the remote API are >= 0).
RunComments ==
  { Obs(Triple(800, 200, 0), 5),
    Obs(Triple(0, 1000, 0), 0),
    Obs(Triple(500, 0, 500), 0) }

\* Arguments of direct kindness / volatility calls, in thousandths.
ArgVals == {0, 500, 1000}

\* Argument Z of direct volatility calls, in thousandths.
ZVals == {0, 500}

\* The channel list of the driver.
Channels == <<"@SkyDoesShorts", "@PhilosophyTube", "@DaveyWaveyRaw", "@TylerOakley">>

NumChannels == Len(Channels)

RunTags == <<"queer">>

------------------------------------------------------------------------------
(* Arithmetic helpers *)

Abs(x) == IF x < 0 THEN -x ELSE x

RECURSIVE Sum(_)
Sum(s) == IF s = <<>> THEN 0 ELSE Head(s) + Sum(Tail(s))

\* sum(v * w for v, w in zip(values, ws)): zip stops at the shorter list.
RECURSIVE ZipDot(_, _)
ZipDot(values, ws) ==
  IF values = <<>> \/ ws = <<>> THEN 0
  ELSE Head(values) * Head(ws) + ZipDot(Tail(values), Tail(ws))

\* round(num / den, 3) in thousandths, den # 0: the possible results.
Round3(num, den) ==
  LET n == IF den < 0 THEN -num ELSE num
      d == Abs(den)
      q == n \div d
      r == n % d
  IN  IF 2 * r < d THEN {q}
      ELSE IF 2 * r > d THEN {q + 1}
      ELSE {q, q + 1}

\* Outcomes of a call: a returned value or a raised exception.
Return(v) == [status |-> "ok", value |-> v, raised_in |-> "-"]

Raise(exc, where) == [status |-> exc, value |-> "-", raised_in |-> where]

Call(op, args, outcome) ==
  [op |-> op, args |-> args, status |-> outcome.status,
   value |-> outcome.value, raised_in |-> outcome.raised_in]

NoArgs == <<>>

\* No get_video_ids call is in progress.
NoFetch == [pc |-> "idle"]

------------------------------------------------------------------------------
(* VaderScores *)

\* __init__: the fields of a fresh object.
VaderScoresNew(cid, tgs) ==
  [channel_id |-> cid, tags |-> tgs, pos_scores |-> <<>>,
   neu_scores |-> <<>>, neg_scores |-> <<>>, weights |-> <<>>]

add_score_SkipsZeroLikes(score, likes) ==
  /\ pos_scores' = Append(pos_scores, score.pos)
  /\ neu_scores' = Append(neu_scores, score.neu)
  /\ neg_scores' = Append(neg_scores, score.neg)
  /\ weights' = IF likes = 0 THEN weights ELSE Append(weights, likes + 1)

add_score_NoOffset(score, likes) ==
  /\ pos_scores' = Append(pos_scores, score.pos)
  /\ neu_scores' = Append(neu_scores, score.neu)
  /\ neg_scores' = Append(neg_scores, score.neg)
  /\ weights' = Append(weights, likes)

add_score_Prepends(score, likes) ==
  /\ pos_scores' = <<score.pos>> \o pos_scores
  /\ neu_scores' = <<score.neu>> \o neu_scores
  /\ neg_scores' = <<score.neg>> \o neg_scores
  /\ weights' = <<likes + 1>> \o weights

\* add_score: the effect on the four lists.
add_score(score, likes) ==
  /\ pos_scores' = Append(pos_scores, score.pos)
  /\ neu_scores' = Append(neu_scores, score.neu)
  /\ neg_scores' = Append(neg_scores, score.neg)
  /\ weights' = Append(weights, likes + 1)

average_scores_DividesByTotalWeight ==
  IF Len(pos_scores) = 0 \/ Len(neu_scores) = 0 \/ Len(neg_scores) = 0
  THEN {Raise("ZeroDivisionError", "average_scores")}
  ELSE IF Sum(weights) = 0
  THEN {Raise("ZeroDivisionError", "average_scores")}
  ELSE { Return([avg_pos |-> p, avg_neu |-> u, avg_neg |-> g]) :
           p \in Round3(Sum(pos_scores), Sum(weights) * Resolution),
           u \in Round3(Sum(neu_scores), Sum(weights) * Resolution),
           g \in Round3(Sum(neg_scores), Sum(weights) * Resolution) }

\* average_scores: the possible outcomes.
average_scores ==
  IF Len(pos_scores) = 0 \/ Len(neu_scores) = 0 \/ Len(neg_scores) = 0
  THEN {Raise("ZeroDivisionError", "average_scores")}
  ELSE { Return([avg_pos |-> p, avg_neu |-> u, avg_neg |-> g]) :
           p \in Round3(Sum(pos_scores), Len(pos_scores) * Resolution),
           u \in Round3(Sum(neu_scores), Len(neu_scores) * Resolution),
           g \in Round3(Sum(neg_scores), Len(neg_scores) * Resolution) }

weighted_average_scores_DividesByCount ==
  IF Len(weights) = 0 \/ Sum(weights) = 0
  THEN average_scores
  ELSE { Return([w_ave_pos |-> p, w_ave_neu |-> u, w_ave_neg |-> g]) :
           p \in Round3(ZipDot(pos_scores, weights), Len(weights) * Resolution),
           u \in Round3(ZipDot(neu_scores, weights), Len(weights) * Resolution),
           g \in Round3(ZipDot(neg_scores, weights), Len(weights) * Resolution) }

\* weighted_average_scores: the possible outcomes.
weighted_average_scores ==
  IF Len(weights) = 0 \/ Sum(weights) = 0
  THEN average_scores
  ELSE LET total_weight == Sum(weights)
       IN  { Return([w_ave_pos |-> p, w_ave_neu |-> u, w_ave_neg |-> g]) :
               p \in Round3(ZipDot(pos_scores, weights), total_weight * Resolution),
               u \in Round3(ZipDot(neu_scores, weights), total_weight * Resolution),
               g \in Round3(ZipDot(neg_scores, weights), total_weight * Resolution) }

kindness_SwapsOperands(P, N) ==
  IF P + N = 0 THEN Raise("ZeroDivisionError", "kindness")
  ELSE Return([num |-> N - P, den |-> P + N])

\* kindness: (P - N) / (P + N), kept as an exact quotient.
kindness(P, N) ==
  IF P + N = 0 THEN Raise("ZeroDivisionError", "kindness")
  ELSE Return([num |-> P - N, den |-> P + N])

\* volatility: 1 / (Z + |P - N|); with P, N, Z in thousandths that is
\* 1000 / (Z + |P - N|).
volatility(P, N, Z) ==
  IF Z + Abs(P - N) = 0 THEN Raise("ZeroDivisionError", "volatility")
  ELSE Return([num |-> 1000, den |-> Z + Abs(P - N)])

\* report_all after both averages were computed without an exception.
Report(a, w) ==
  IF ~ ({"w_ave_pos", "w_ave_neg", "w_ave_neu"} \subseteq DOMAIN w)
  THEN Raise("KeyError", "report_all")
  ELSE LET P == w.w_ave_pos
           N == w.w_ave_neg
           Z == w.w_ave_neu
           k == kindness(P, N)
           v == volatility(P, N, Z)
       IN  IF k.status # "ok" THEN k
           ELSE IF v.status # "ok" THEN v
           ELSE Return([channel_id |-> channel_id,
                        tags |-> tags,
                        num_comments_analyzed |-> Len(pos_scores),
                        average_score |-> a,
                        weighted_average_score |-> w,
                        kindness |-> k.value,
                        volatility |-> v.value])

\* report_all: the possible outcomes (the timestamp is left out).
report_all ==
  { IF a.status # "ok" THEN a
    ELSE IF w.status # "ok" THEN w
    ELSE Report(a.value, w.value) :
      a \in average_scores, w \in weighted_average_scores }

------------------------------------------------------------------------------
(* The aggregator used directly: any sequence of method calls on one object *)

Init ==
  /\ LET self == VaderScoresNew(Channels[1], RunTags)
     IN  /\ channel_id = self.channel_id
         /\ tags = self.tags
         /\ pos_scores = self.pos_scores
         /\ neu_scores = self.neu_scores
         /\ neg_scores = self.neg_scores
         /\ weights = self.weights
  /\ added = <<>>
  /\ last = Call("__init__", NoArgs, Return("-"))
  /\ channel_ratings = {}
  /\ pc = "direct"
  /\ ch = 1
  /\ fetch = NoFetch

AddScore ==
  \E o \in Observations :
    /\ Len(added) < MaxObs
    /\ add_score(o.score, o.likes)
    /\ added' = Append(added, o)
    /\ last' = Call("add_score", o, Return("-"))
    /\ UNCHANGED <<channel_id, tags, channel_ratings, driver, fetch>>

AverageScores ==
  \E r \in average_scores :
    /\ last' = Call("average_scores", NoArgs, r)
    /\ UNCHANGED <<aggregator, added, channel_ratings, driver, fetch>>

WeightedAverageScores ==
  \E r \in weighted_average_scores :
    /\ last' = Call("weighted_average_scores", NoArgs, r)
    /\ UNCHANGED <<aggregator, added, channel_ratings, driver, fetch>>

Kindness ==
  \E P \in ArgVals, N \in ArgVals :
    /\ last' = Call("kindness", [P |-> P, N |-> N], kindness(P, N))
    /\ UNCHANGED <<aggregator, added, channel_ratings, driver, fetch>>

Volatility ==
  \E P \in ArgVals, N \in ArgVals, Z \in ZVals :
    /\ last' = Call("volatility", [P |-> P, N |-> N, Z |-> Z], volatility(P, N, Z))
    /\ UNCHANGED <<aggregator, added, channel_ratings, driver, fetch>>

ReportAll_ClearsScores ==
  \E r \in report_all :
    /\ last' = Call("report_all", NoArgs, r)
    /\ channel_ratings' = IF r.status = "ok" THEN channel_ratings \cup {channel_id}
                          ELSE channel_ratings
    /\ pos_scores' = <<>>
    /\ neu_scores' = <<>>
    /\ neg_scores' = <<>>
    /\ weights' = <<>>
    /\ UNCHANGED <<channel_id, tags, added, driver, fetch>>

\* report_all writes channel-ratings/<channel_id>.json only when nothing
\* before the write raised.
ReportAll ==
  \E r \in report_all :
    /\ last' = Call("report_all", NoArgs, r)
    /\ channel_ratings' = IF r.status = "ok" THEN channel_ratings \cup {channel_id}
                          ELSE channel_ratings
    /\ UNCHANGED <<aggregator, added, driver, fetch>>

Next ==
  \/ AddScore
  \/ AverageScores
  \/ WeightedAverageScores
  \/ Kindness
  \/ Volatility
  \/ ReportAll

Spec == Init /\ [][Next]_vars

------------------------------------------------------------------------------
(* main.py: the loop over the channel list, one rate_channel_by_comments   *)
(* call per channel.  Nothing in the loop or in rate_channel_by_comments   *)
(* catches an exception, so one that is raised ends the program.           *)

RunInit ==
  /\ channel_id = "-"
  /\ tags = <<>>
  /\ pos_scores = <<>>
  /\ neu_scores = <<>>
  /\ neg_scores = <<>>
  /\ weights = <<>>
  /\ added = <<>>
  /\ last = Call("__main__", NoArgs, Return("-"))
  /\ channel_ratings = {}
  /\ pc = "call"
  /\ ch = 1
  /\ fetch = NoFetch

\* get_channel_videos ends the process with sys.exit(1): no API key in
\* config, or the channel identifier does not resolve.
GetVideosExits ==
  /\ pc = "call"
  /\ last' = Call("get_channel_videos", Channels[ch],
                  Raise("SystemExit", "get_channel_videos"))
  /\ pc' = "aborted"
  /\ UNCHANGED <<aggregator, added, channel_ratings, ch, fetch>>

\* get_channel_videos finds no video ids and returns None; the caller's
\* len(videos) then raises TypeError.
GetVideosNone ==
  /\ pc = "call"
  /\ last' = Call("get_channel_videos", Channels[ch],
                  Raise("TypeError", "rate_channel_by_comments"))
  /\ pc' = "aborted"
  /\ UNCHANGED <<aggregator, added, channel_ratings, ch, fetch>>

\* get_channel_videos returns a non-empty list; the caller constructs the
\* channel's VaderScores and starts reading comments.
GetVideosList ==
  /\ pc = "call"
  /\ LET self == VaderScoresNew(Channels[ch], RunTags)
     IN  /\ channel_id' = self.channel_id
         /\ tags' = self.tags
         /\ pos_scores' = self.pos_scores
         /\ neu_scores' = self.neu_scores
         /\ neg_scores' = self.neg_scores
         /\ weights' = self.weights
  /\ added' = <<>>
  /\ last' = Call("__init__", Channels[ch], Return("-"))
  /\ pc' = "comments"
  /\ UNCHANGED <<channel_ratings, ch, fetch>>

\* One comment of one video: scored and added.
RunAddScore ==
  \E o \in RunComments :
    /\ pc = "comments"
    /\ Len(added) < MaxComments
    /\ add_score(o.score, o.likes)
    /\ added' = Append(added, o)
    /\ last' = Call("add_score", o, Return("-"))
    /\ UNCHANGED <<channel_id, tags, channel_ratings, driver, fetch>>

\* The videos are exhausted: report_all, then the next channel.
RunReportAll ==
  \E r \in report_all :
    /\ pc = "comments"
    /\ last' = Call("report_all", NoArgs, r)
    /\ IF r.status = "ok"
       THEN /\ channel_ratings' = channel_ratings \cup {channel_id}
            /\ ch' = ch + 1
            /\ pc' = IF ch = NumChannels THEN "done" ELSE "call"
       ELSE /\ pc' = "aborted"
            /\ UNCHANGED <<channel_ratings, ch>>
    /\ UNCHANGED <<aggregator, added, fetch>>

RunNext ==
  \/ GetVideosExits
  \/ GetVideosNone
  \/ GetVideosList
  \/ RunAddScore
  \/ RunReportAll

RunSpec == RunInit /\ [][RunNext]_vars

------------------------------------------------------------------------------
(* channel_videos.py: YouTubeChannelVideoFetcher.get_video_ids, one call.  *)
(* Each pass of the while loop sends one search request; the remote        *)
(* answers with a page (items, and a nextPageToken or none) or the         *)
(* request raises HttpError.                                               *)

MAX_QUERY_SIZE == 50

\* A response without nextPageToken: response.get gives None.
NoToken == "None"

PageTokens == {"t1", "t2"}

Video(id) == [kind |-> "youtube#video", videoId |-> id]

\* The items a page can hold: two videos and one item of another kind.
Items == {Video("a"), Video("b"), [kind |-> "youtube#channel", videoId |-> "-"]}

RECURSIVE SeqsUpTo(_, _)
SeqsUpTo(S, n) ==
  IF n = 0 THEN {<<>>}
  ELSE LET shorter == SeqsUpTo(S, n - 1)
       IN  shorter \cup {Append(q, x) : q \in shorter, x \in S}

Pages == SeqsUpTo(Items, MaxPageItems)

RECURSIVE ExtractVideoIds_NoBreak(_, _, _)
ExtractVideoIds_NoBreak(video_ids, items, max_videos) ==
  IF items = <<>> THEN video_ids
  ELSE IF Head(items).kind = "youtube#video"
  THEN ExtractVideoIds_NoBreak(Append(video_ids, Head(items).videoId),
                               Tail(items), max_videos)
  ELSE ExtractVideoIds_NoBreak(video_ids, Tail(items), max_videos)

\* for item in response['items']: append the id of each video, and stop
\* once max_videos ids are there.
RECURSIVE ExtractVideoIds(_, _, _)
ExtractVideoIds(video_ids, items, max_videos) ==
  IF items = <<>> THEN video_ids
  ELSE IF Head(items).kind = "youtube#video"
  THEN LET more == Append(video_ids, Head(items).videoId)
       IN  IF Len(more) >= max_videos THEN more
           ELSE ExtractVideoIds(more, Tail(items), max_videos)
  ELSE ExtractVideoIds(video_ids, Tail(items), max_videos)

\* The locals at the start of the call.
GetVideoIdsCall(max_videos) ==
  [pc |-> "while", max_videos |-> max_videos, video_ids |-> <<>>,
   next_page_token |-> NoToken, maxResults |-> 0, step |-> "call",
   got |-> 0, result |-> <<>>]

FetchInit ==
  /\ channel_id = "-"
  /\ tags = <<>>
  /\ pos_scores = <<>>
  /\ neu_scores = <<>>
  /\ neg_scores = <<>>
  /\ weights = <<>>
  /\ added = <<>>
  /\ last = Call("get_video_ids", NoArgs, Return("-"))
  /\ channel_ratings = {}
  /\ pc = "fetch"
  /\ ch = 1
  /\ fetch \in {GetVideoIdsCall(m) : m \in 0..MaxVideos}

FetchUnchanged == UNCHANGED <<aggregator, added, last, channel_ratings, driver>>

\* The while condition is false: fall through to the return.
WhileExit ==
  /\ fetch.pc = "while"
  /\ Len(fetch.video_ids) >= fetch.max_videos
  /\ fetch' = [fetch EXCEPT !.pc = "returned", !.step = "exit",
                            !.result = fetch.video_ids]
  /\ FetchUnchanged

\* One pass of the loop whose request is answered with a page.
FetchPage ==
  \E items \in Pages, token \in PageTokens \cup {NoToken} :
    /\ fetch.pc = "while"
    /\ Len(fetch.video_ids) < fetch.max_videos
    /\ LET remaining_videos == fetch.max_videos - Len(fetch.video_ids)
           batch_size == IF MAX_QUERY_SIZE < remaining_videos
                         THEN MAX_QUERY_SIZE ELSE remaining_videos
           video_ids == ExtractVideoIds(fetch.video_ids, items, fetch.max_videos)
           stop == token = NoToken \/ Len(video_ids) >= fetch.max_videos
       IN  fetch' = [fetch EXCEPT
                       !.maxResults = batch_size,
                       !.video_ids = video_ids,
                       !.next_page_token = token,
                       !.step = "page",
                       !.got = Len(video_ids) - Len(fetch.video_ids),
                       !.pc = IF stop THEN "returned" ELSE "while",
                       !.result = IF stop THEN video_ids ELSE <<>>]
    /\ FetchUnchanged

\* One pass of the loop whose request raises HttpError: the except clause
\* logs it and the function returns what it has.
FetchHttpError ==
  /\ fetch.pc = "while"
  /\ Len(fetch.video_ids) < fetch.max_videos
  /\ LET remaining_videos == fetch.max_videos - Len(fetch.video_ids)
         batch_size == IF MAX_QUERY_SIZE < remaining_videos
                       THEN MAX_QUERY_SIZE ELSE remaining_videos
     IN  fetch' = [fetch EXCEPT
                     !.maxResults = batch_size,
                     !.step = "HttpError",
                     !.got = 0,
                     !.pc = "returned",
                     !.result = fetch.video_ids]
  /\ FetchUnchanged

FetchNext ==
  \/ WhileExit
  \/ FetchPage
  \/ FetchHttpError

FetchSpec == FetchInit /\ [][FetchNext]_vars

\* The running call always takes its next step, and the remote always
\* answers a request, with a page or with an error.
FetchSpecFair == FetchSpec /\ WF_vars(FetchNext)

------------------------------------------------------------------------------
(* Properties *)

DerivationOps ==
  {"average_scores", "weighted_average_scores", "kindness", "volatility", "report_all"}

\* The three values of an averages dict, whichever key names it carries.
PNZ(d) ==
  IF "w_ave_pos" \in DOMAIN d
  THEN <<d.w_ave_pos, d.w_ave_neu, d.w_ave_neg>>
  ELSE <<d.avg_pos, d.avg_neu, d.avg_neg>>

EqualWeights ==
  /\ Len(weights) > 0
  /\ \A i, j \in DOMAIN weights : weights[i] = weights[j]

\* The exact mean of a list lies half-way between two thousandths.
HalfWay(values) ==
  (2 * Sum(values)) % (2 * Len(values) * Resolution) = Len(values) * Resolution

ScenarioA ==
  added = << Obs(Triple(800, 200, 0), 5),
             Obs(Triple(0, 300, 700), 1),
             Obs(Triple(100, 700, 200), 0) >>

\* C1: after N add_score calls on a fresh object, interleaved with any
\* derivation calls, pos_scores, neu_scores, neg_scores and weights all
\* have length exactly N.
C1_ParallelLengths ==
  /\ Len(pos_scores) = Len(added)
  /\ Len(neu_scores) = Len(added)
  /\ Len(neg_scores) = Len(added)
  /\ Len(weights) = Len(added)

C1_Witness ==
  /\ Len(added) = 3
  /\ added[3].likes = 0
  /\ last.op = "report_all"
  /\ Len(weights) = 3

\* C2: average_scores() or weighted_average_scores() on an aggregator with
\* zero observations fails with EmptyStateError, never with a raw
\* division-by-zero error and never with a numeric result.
C2_EmptyRaisesEmptyStateError ==
  (last.op \in {"average_scores", "weighted_average_scores"} /\ added = <<>>)
    => last.status = "EmptyStateError"

\* C3: in the multi-channel run a channel that cannot produce a report (no
\* videos, no comments, an undefined kindness or volatility) is skipped:
\* the run does not abort there and the later channels are still analysed.
\* (The run may still end where get_channel_videos itself calls sys.exit.)
C3_RunSurvivesFailedChannel ==
  pc = "aborted" => last.status = "SystemExit"

\* C4: kindness(P, N) evaluated with P + N = 0, directly or by report_all,
\* ends in a sentinel value or UndefinedMetricError, never in a raw
\* division-by-zero error.
C4_KindnessZeroDenominatorPolicy ==
  /\ (last.op = "kindness" /\ last.args.P + last.args.N = 0)
       => last.status \in {"ok", "UndefinedMetricError"}
  /\ (last.op = "report_all" /\ last.raised_in = "kindness")
       => last.status = "UndefinedMetricError"

\* C5: volatility(P, N, Z) evaluated with Z = 0 and P = N, directly or by
\* report_all on the rounded weighted averages, ends in a sentinel value or
\* UndefinedMetricError, never in a raw division-by-zero error.
C5_VolatilityZeroDenominatorPolicy ==
  /\ (last.op = "volatility" /\ last.args.Z = 0 /\ last.args.P = last.args.N)
       => last.status \in {"ok", "UndefinedMetricError"}
  /\ (last.op = "report_all" /\ last.raised_in = "volatility")
       => last.status = "UndefinedMetricError"

\* C6: with a non-empty aggregator whose weights total zero,
\* weighted_average_scores() returns the average_scores() values under the
\* keys w_ave_pos, w_ave_neu, w_ave_neg, and report_all can read them.
C6_DegenerateWeightFallback ==
  (Len(weights) > 0 /\ Sum(weights) = 0) =>
    /\ last.op = "weighted_average_scores" =>
         /\ last.status = "ok"
         /\ DOMAIN last.value = {"w_ave_pos", "w_ave_neu", "w_ave_neg"}
         /\ \E a \in average_scores : PNZ(a.value) = PNZ(last.value)
    /\ last.op = "report_all" => last.status # "KeyError"

\* C7: every call of average_scores, weighted_average_scores, kindness,
\* volatility or report_all, returning or failing, leaves pos_scores,
\* neu_scores, neg_scores, weights, channel_id and tags as they were.
C7_DerivationsReadOnly ==
  [][last'.op \in DerivationOps => UNCHANGED aggregator]_vars

C7_Witness ==
  /\ last.op = "report_all"
  /\ last.status = "ZeroDivisionError"
  /\ last.raised_in = "kindness"
  /\ pos_scores = <<0, 0, 0>>
  /\ weights = <<1, 1, 1>>

\* C8: add_score(triple, engagement_count) appends exactly one element to
\* each list: the triple's positive, neutral and negative value and
\* engagement_count + 1; earlier elements keep their value and place, no
\* step shortens a list, and a weight recorded for engagement_count >= 0
\* is >= 1.
C8_AddScoreAppends ==
  [][ /\ \A s \in {<<pos_scores, pos_scores'>>, <<neu_scores, neu_scores'>>,
                   <<neg_scores, neg_scores'>>, <<weights, weights'>>} :
           /\ Len(s[2]) >= Len(s[1])
           /\ SubSeq(s[2], 1, Len(s[1])) = s[1]
      /\ last'.op = "add_score" =>
           /\ pos_scores' = Append(pos_scores, last'.args.score.pos)
           /\ neu_scores' = Append(neu_scores, last'.args.score.neu)
           /\ neg_scores' = Append(neg_scores, last'.args.score.neg)
           /\ weights' = Append(weights, last'.args.likes + 1)
           /\ last'.args.likes >= 0 => weights'[Len(weights')] >= 1
    ]_vars

C8_Witness ==
  /\ last.op = "add_score"
  /\ last.args.likes = 5
  /\ Len(weights) = 3
  /\ weights[3] = 6
  /\ pos_scores[3] = last.args.score.pos

C10_ScenarioAAsStated ==
  ScenarioA =>
    /\ weights = <<6, 2, 1>>
    /\ Sum(weights) = 9
    /\ last.op = "average_scores" =>
         last.status = "ok" /\ PNZ(last.value) = <<300, 400, 300>>
    /\ last.op = "weighted_average_scores" =>
         last.status = "ok" /\ PNZ(last.value) = <<478, 256, 267>>

\* C10 as amended: in scenario A the weights are [6, 2, 1] (total 9),
\* average_scores() returns 0.3, 0.4, 0.3 and weighted_average_scores()
\* returns w_ave_pos 0.544, w_ave_neu 0.278, w_ave_neg 0.178, each the
\* weighted sum over the total weight rounded to 3 decimals.
C10_ScenarioA ==
  ScenarioA =>
    /\ weights = <<6, 2, 1>>
    /\ Sum(weights) = 9
    /\ last.op = "average_scores" =>
         /\ last.status = "ok"
         /\ last.value = [avg_pos |-> 300, avg_neu |-> 400, avg_neg |-> 300]
    /\ last.op = "weighted_average_scores" =>
         /\ last.status = "ok"
         /\ last.value = [w_ave_pos |-> 544, w_ave_neu |-> 278, w_ave_neg |-> 178]
         /\ last.value.w_ave_pos \in Round3(800 * 6 + 0 * 2 + 100 * 1, 9)
         /\ last.value.w_ave_neu \in Round3(200 * 6 + 300 * 2 + 700 * 1, 9)
         /\ last.value.w_ave_neg \in Round3(0 * 6 + 700 * 2 + 200 * 1, 9)

C10_Witness ==
  /\ ScenarioA
  /\ last.op = "weighted_average_scores"
  /\ last.status = "ok"
  /\ last.value.w_ave_pos = 544

RECURSIVE SeqMin(_)
SeqMin(values) ==
  IF Len(values) = 1 THEN Head(values)
  ELSE LET m == SeqMin(Tail(values))
       IN  IF Head(values) < m THEN Head(values) ELSE m

RECURSIVE SeqMax(_)
SeqMax(values) ==
  IF Len(values) = 1 THEN Head(values)
  ELSE LET m == SeqMax(Tail(values))
       IN  IF Head(values) > m THEN Head(values) ELSE m

\* Every recorded value of the list is a whole number of thousandths.
ThreeDecimals(values) ==
  \A i \in DOMAIN values : values[i] % Resolution = 0

\* The three lists, in the order of PNZ.
ScoreLists == <<pos_scores, neu_scores, neg_scores>>

\* C11 as stated: every value returned by average_scores() on a non-empty
\* aggregator lies between the minimum and the maximum of its list.
C11_AverageWithinMinMax ==
  (last.op = "average_scores" /\ Len(added) > 0) =>
    /\ last.status = "ok"
    /\ \A i \in 1..3 :
         /\ SeqMin(ScoreLists[i]) <= PNZ(last.value)[i] * Resolution
         /\ PNZ(last.value)[i] * Resolution <= SeqMax(ScoreLists[i])

\* C11 as amended: every value returned by average_scores() on a non-empty
\* aggregator lies within 0.0005 of the range from the minimum to the
\* maximum of its list, and inside that range when every recorded value of
\* the list has at most 3 decimals.
C11_AverageWithinMinMaxRounded ==
  (last.op = "average_scores" /\ Len(added) > 0) =>
    /\ last.status = "ok"
    /\ \A i \in 1..3 :
         LET avg == PNZ(last.value)[i] * Resolution
             lo == SeqMin(ScoreLists[i])
             hi == SeqMax(ScoreLists[i])
         IN  /\ 2 * lo - Resolution <= 2 * avg
             /\ 2 * avg <= 2 * hi + Resolution
             /\ ThreeDecimals(ScoreLists[i]) => (lo <= avg /\ avg <= hi)

C11_Witness ==
  /\ last.op = "average_scores"
  /\ last.status = "ok"
  /\ Len(pos_scores) = 3
  /\ ThreeDecimals(pos_scores)
  /\ SeqMin(pos_scores) < last.value.avg_pos * Resolution
  /\ last.value.avg_pos * Resolution < SeqMax(pos_scores)

\* The quotient q.num / q.den of kindness(P, N) for P, N >= 0 not both
\* zero: in [-1, 1], positive for P > N, zero for P = N, one for N = 0.
KindnessAsClaimed(P, N, q) ==
  /\ q.den > 0
  /\ -q.den <= q.num /\ q.num <= q.den
  /\ P > N => q.num > 0
  /\ P = N => q.num = 0
  /\ (P = 1000 /\ N = 0) => q.num = q.den

\* C12: for P, N >= 0 not both zero, kindness(P, N) = (P - N) / (P + N)
\* lies in [-1, 1], is > 0 whenever P > N, is 0 whenever P = N (both
\* non-zero), and kindness(1.0, 0.0) = 1.0; the same for the kindness that
\* report_all derives from the weighted averages.
C12_KindnessSignAndRange ==
  /\ (/\ last.op = "kindness"
      /\ last.args.P >= 0 /\ last.args.N >= 0
      /\ last.args.P + last.args.N # 0)
       => /\ last.status = "ok"
          /\ last.value.num * (last.args.P + last.args.N)
               = (last.args.P - last.args.N) * last.value.den
          /\ KindnessAsClaimed(last.args.P, last.args.N, last.value)
  /\ (last.op = "report_all" /\ last.status = "ok")
       => KindnessAsClaimed(last.value.weighted_average_score.w_ave_pos,
                            last.value.weighted_average_score.w_ave_neg,
                            last.value.kindness)

C12_Witness ==
  /\ last.op = "kindness"
  /\ last.args = [P |-> 1000, N |-> 0]
  /\ last.status = "ok"
  /\ last.value.num = last.value.den

\* The state after a page that held no video id and carried a token.
EmptyPageWithToken ==
  fetch.pc = "while" /\ fetch.step = "page" /\ fetch.got = 0

\* What a returned get_video_ids call has delivered.
FetchReturnsAtMostMax ==
  /\ Len(fetch.video_ids) <= fetch.max_videos
  /\ fetch.pc = "returned" =>
       /\ fetch.result = fetch.video_ids
       /\ Len(fetch.result) <= fetch.max_videos

\* A step that sends a request is taken only inside the loop, with fewer
\* than max_videos ids collected and, after a first page, with the token
\* of the page before; a request that raises HttpError ends the call with
\* the ids collected before it.
FetchRequestsOnlyWhenNeeded ==
  /\ fetch'.step \in {"page", "HttpError"} =>
       /\ fetch.pc = "while"
       /\ Len(fetch.video_ids) < fetch.max_videos
       /\ fetch.step = "page" => fetch.next_page_token # NoToken
  /\ fetch'.step = "HttpError" =>
       /\ fetch'.pc = "returned"
       /\ fetch'.result = fetch.video_ids

\* C13 as stated: for every max_videos >= 0 and every sequence of page
\* responses, get_video_ids terminates and returns at most max_videos ids.
C13_AlwaysTerminates ==
  <>(fetch.pc = "returned" /\ Len(fetch.result) <= fetch.max_videos)

\* C13 as amended: whenever get_video_ids returns, it returns at most
\* max_videos ids; it sends no request once max_videos ids are collected
\* or a response carried no next-page token; on an HTTP error it returns
\* the ids gathered so far; and it terminates unless the remote keeps
\* sending pages that hold no video id and carry a next-page token.
C13_BoundedAndTerminatesUnlessEmptyPages ==
  /\ []FetchReturnsAtMostMax
  /\ [][FetchRequestsOnlyWhenNeeded]_vars
  /\ (<>(fetch.pc = "returned") \/ []<>EmptyPageWithToken)

C13_Witness ==
  /\ fetch.pc = "returned"
  /\ fetch.step = "page"
  /\ fetch.max_videos = 3
  /\ Len(fetch.result) = 3
  /\ fetch.next_page_token # NoToken

====
